---- MODULE Spec2Model ----
(***************************************************************************)
(* qcelemental: the covalent-radii table (covalent_radii.py) and the       *)
(* Molecule record exercised by tests/test_models.py.                      *)
(*                                                                         *)
(* Python strings that the code inspects character by character            *)
(* (identifiers, labels, decimal literals) are sequences of one-character  *)
(* strings; strings that are only carried around (units, comments, DOIs,   *)
(* context names) are TLA+ strings.  A float is an integer number of       *)
(* thousandths; a Decimal is [coef, exp] with value coef * 10^exp.         *)
(***************************************************************************)
EXTENDS Integers, Sequences, FiniteSets, TLC

VARIABLES heap, files, last, molecule

vars == <<heap, files, last, molecule>>

\* ------------------------------------------------------------------ bounds

\* a float passed as missing is k * 0.667 for some k in 0..MaxMissing
MaxMissing == 2

\* a Molecule has at most MaxAtoms atoms
MaxAtoms == 2

\* ------------------------------------------------------- Python str and int

LowerAlpha ==
    <<"a","b","c","d","e","f","g","h","i","j","k","l","m",
      "n","o","p","q","r","s","t","u","v","w","x","y","z">>

UpperAlpha ==
    <<"A","B","C","D","E","F","G","H","I","J","K","L","M",
      "N","O","P","Q","R","S","T","U","V","W","X","Y","Z">>

Digits == <<"0","1","2","3","4","5","6","7","8","9">>

Range(sq) == {sq[i] : i \in DOMAIN sq}

IndexOf(sq, c) == CHOOSE i \in DOMAIN sq : sq[i] = c

LowerSet == Range(LowerAlpha)

UpperSet == Range(UpperAlpha)

\* str.upper / str.lower on one character
UpperChar(c) == IF c \in LowerSet THEN UpperAlpha[IndexOf(LowerAlpha, c)] ELSE c

LowerChar(c) == IF c \in UpperSet THEN LowerAlpha[IndexOf(UpperAlpha, c)] ELSE c

\* str.capitalize(): first character upper-cased, the rest lower-cased
capitalize(s) ==
    [i \in DOMAIN s |-> IF i = 1 THEN UpperChar(s[i]) ELSE LowerChar(s[i])]

DigitVal(c) == IndexOf(Digits, c) - 1

RECURSIVE ParseInt(_)
\* int(s) for a string of decimal digits
ParseInt(s) ==
    IF s = <<>> THEN 0
    ELSE 10 * ParseInt(SubSeq(s, 1, Len(s) - 1)) + DigitVal(s[Len(s)])

RECURSIVE IntStr(_)
\* str(n) for n >= 0
IntStr(n) ==
    IF n < 10 THEN <<Digits[n + 1]>>
    ELSE IntStr(n \div 10) \o <<Digits[(n % 10) + 1]>>

RECURSIVE Pow10(_)
Pow10(n) == IF n = 0 THEN 1 ELSE 10 * Pow10(n - 1)

\* ------------------------------------------------------------------ Decimal

\* Decimal("0.76") = [coef |-> 76, exp |-> -2]
Decimal(s) ==
    LET dots == {i \in DOMAIN s : s[i] = "."}
        p    == IF dots = {} THEN Len(s) + 1 ELSE CHOOSE i \in dots : TRUE
        frac == IF dots = {} THEN <<>> ELSE SubSeq(s, p + 1, Len(s))
    IN  [coef |-> ParseInt(SubSeq(s, 1, p - 1) \o frac), exp |-> -Len(frac)]

\* str(Decimal): the literal with as many fraction digits as the exponent says
DecimalStr(d) ==
    LET n    == -d.exp
        ip   == d.coef \div Pow10(n)
        fp   == d.coef % Pow10(n)
        fs   == IntStr(fp)
        pad  == [i \in 1..(n - Len(fs)) |-> "0"]
    IN  IF n = 0 THEN IntStr(ip) ELSE IntStr(ip) \o <<".">> \o pad \o fs

\* "{:.2f}".format(x) for a float x >= 0 given in thousandths: rounded to the
\* nearest hundredth (no value the model passes lies exactly half way)
format_2f(x) ==
    LET h  == (x + 5) \div 10
        fs == IntStr(h % 100)
    IN  IntStr(h \div 100) \o <<".">> \o (IF Len(fs) = 1 THEN <<"0">> ELSE <<>>) \o fs

\* the number an array initializer's literal denotes, in thousandths
LiteralValue(s) ==
    LET d == Decimal(s) IN d.coef * Pow10(3 + d.exp)

\* ------------------------------------------------- atoms and call outcomes

\* an `atom` argument: an int or a str
IntAtom(n) == [isInt |-> TRUE, n |-> n, s |-> <<>>]

StrAtom(s) == [isInt |-> FALSE, n |-> 0, s |-> s]

NoAtom == StrAtom(<<>>)

\* Python's None for the `missing` argument, or a float
None == [isNone |-> TRUE, v |-> 0]

Float(x) == [isNone |-> FALSE, v |-> x]

NoDatum == [label |-> <<>>, units |-> "", data |-> [coef |-> 0, exp |-> 0],
            comment |-> "", doi |-> ""]

\* what a call hands back: a returned value or a raised exception
NoOutcome ==
    [kind |-> "none", exc |-> "", num |-> 0, datum |-> NoDatum, what |-> "",
     ident |-> <<>>, atom |-> NoAtom, names |-> {}, text |-> <<>>]

ReturnFloat(x) == [NoOutcome EXCEPT !.kind = "float", !.num = x]

ReturnDatum(d) == [NoOutcome EXCEPT !.kind = "datum", !.datum = d]

ReturnText(t) == [NoOutcome EXCEPT !.kind = "text", !.text = t]

\* exceptions.NotAnElementError(atom)
NotAnElementError(atom) ==
    [NoOutcome EXCEPT !.kind = "raise", !.exc = "NotAnElementError", !.atom = atom]

\* exceptions.DataUnavailableError(dataset, atom)
DataUnavailableError(dataset, ident) ==
    [NoOutcome EXCEPT !.kind = "raise", !.exc = "DataUnavailableError",
                      !.what = dataset, !.ident = ident]

\* datum: an undefined conversion ratio
UnknownUnitError(units) ==
    [NoOutcome EXCEPT !.kind = "raise", !.exc = "UnknownUnitError", !.what = units]

\* ------------------------------------------------------------------- Datum

Datum(label, units, data, comment, doi) ==
    [label |-> label, units |-> units, data |-> data, comment |-> comment, doi |-> doi]

KnownUnits == {"angstrom", "bohr"}

\* the ratio between two length units, in 1e-5 (1 angstrom = 1.88973 bohr)
conversion_factor(from, to) ==
    IF from = to THEN 100000
    ELSE IF from = "angstrom" /\ to = "bohr" THEN 188973
    ELSE 52918

\* Datum.to_units(units): float(data * conversion_factor), in thousandths
to_units(d, units) ==
    IF units \notin KnownUnits \/ d.units \notin KnownUnits
    THEN UnknownUnitError(units)
    ELSE ReturnFloat((d.data.coef * Pow10(3 + d.data.exp)
                        * conversion_factor(d.units, units)) \div 100000)

\* ---------------------------------------------------------- periodic table

\* element records in atomic-number order: symbol, atomic number, the mass
\* numbers of the nuclides that have a label of their own
Elements ==
    <<[E |-> <<"H">>, Z |-> 1,  A |-> {1, 2, 3}],
      [E |-> <<"H","e">>, Z |-> 2,  A |-> {3, 4}],
      [E |-> <<"C">>, Z |-> 6,  A |-> {12, 13}],
      [E |-> <<"M","n">>, Z |-> 25, A |-> {55}],
      [E |-> <<"F","e">>, Z |-> 26, A |-> {56}],
      [E |-> <<"C","o">>, Z |-> 27, A |-> {59}],
      [E |-> <<"C","m">>, Z |-> 96, A |-> {247}],
      [E |-> <<"B","k">>, Z |-> 97, A |-> {247}]>>

\* periodictable.E: the element symbols, by atomic number
periodictable_E == [i \in DOMAIN Elements |-> Elements[i].E]

\* the nuclide labels of element e: "He", "He3", "He4"; hydrogen also "D", "T"
NuclideLabels(e) ==
    {e.E} \cup {e.E \o IntStr(a) : a \in e.A}
          \cup (IF e.Z = 1 THEN {<<"D">>, <<"T">>} ELSE {})

\* the nuclide labels, each with the index of its element
eliso2el == [i \in DOMAIN Elements |-> NuclideLabels(Elements[i])]

\* periodictable.to_E(atom): an atomic number, or a nuclide label in any case
to_E(atom) ==
    LET label == capitalize(atom.s)
        hit   == IF atom.isInt
                 THEN {i \in DOMAIN Elements : Elements[i].Z = atom.n}
                 ELSE {i \in DOMAIN Elements : label \in eliso2el[i]}
    IN  IF hit = {} THEN [ok |-> FALSE, E |-> <<>>, out |-> NotAnElementError(atom)]
        ELSE [ok |-> TRUE, E |-> Elements[CHOOSE i \in hit : TRUE].E, out |-> NoOutcome]

\* --------------------------------------------- data.alvarez_2008_covalent_radii

\* (label, value in angstrom, uncertainty in the last digit)
alvarez_covalent_radii ==
    <<<<<<"H">>, <<"0",".","3","1">>, "5">>,
      <<<<"H","e">>, <<"0",".","2","8">>, "">>,
      <<<<"C","_","s","p","3">>, <<"0",".","7","6">>, "1">>,
      <<<<"C","_","s","p","2">>, <<"0",".","7","3">>, "2">>,
      <<<<"C","_","s","p">>, <<"0",".","6","9">>, "1">>,
      <<<<"M","n","_","l","o","w","s","p","i","n">>, <<"1",".","3","9">>, "5">>,
      <<<<"M","n","_","h","i","g","h","s","p","i","n">>, <<"1",".","6","1">>, "8">>,
      <<<<"F","e","_","l","o","w","s","p","i","n">>, <<"1",".","3","2">>, "3">>,
      <<<<"F","e","_","h","i","g","h","s","p","i","n">>, <<"1",".","5","2">>, "6">>,
      <<<<"C","o","_","l","o","w","s","p","i","n">>, <<"1",".","2","6">>, "3">>,
      <<<<"C","o","_","h","i","g","h","s","p","i","n">>, <<"1",".","5","0">>, "7">>,
      <<<<"C","m">>, <<"1",".","6","9">>, "3">>>>

\* only the first four characters of the date are read
alvarez_2008_covalent_radii ==
    [doi |-> "10.1039/b801115j", units |-> "angstrom", date |-> <<"2","0","0","8","-">>,
     covalent_radii |-> alvarez_covalent_radii]

\* -------------------------------------------------- collections.OrderedDict

\* an OrderedDict is a sequence of <<key, value>> pairs in insertion order
dict_keys(d) == {d[i][1] : i \in DOMAIN d}

\* k in d
dict_contains(d, k) == \E i \in DOMAIN d : d[i][1] = k

\* d[k] for a key that is present
dict_getitem(d, k) == d[CHOOSE i \in DOMAIN d : d[i][1] = k][2]

\* d[k] = v: an existing key keeps its place, a new key goes last
dict_setitem(d, k, v) ==
    IF dict_contains(d, k)
    THEN [i \in DOMAIN d |-> IF d[i][1] = k THEN <<k, v>> ELSE d[i]]
    ELSE Append(d, <<k, v>>)

\* ------------------------------------------------------------ CovalentRadii

\* the object as `self.cr = collections.OrderedDict()` leaves it
NewObject == [cr |-> <<>>, doi |-> "", native_units |-> "", name |-> "", year |-> 0]

RECURSIVE LoadEntries(_, _, _)
\* for cr in alvarez_2008_covalent_radii["covalent_radii"]: self.cr[cr[0]] = Datum(...)
LoadEntries(self, entries, n) ==
    IF n = 0 THEN self
    ELSE LET before == LoadEntries(self, entries, n - 1)
             cr     == entries[n]
         IN  [before EXCEPT !.cr = dict_setitem(before.cr, cr[1],
                 Datum(cr[1], before.native_units, Decimal(cr[2]), cr[3], before.doi))]

\* the aliases bound to a smaller variant of each element, not the largest
aliases_smaller_variant(self) ==
    <<<<<<"C">>, "angstrom", dict_getitem(self.cr, <<"C","_","s","p","2">>).data,
        "Largest (sp3) chosen for generic atom">>,
      <<<<"M","n">>, "angstrom", dict_getitem(self.cr, <<"M","n","_","l","o","w","s","p","i","n">>).data,
        "Larger (high-spin) chosen for generic atom">>,
      <<<<"F","e">>, "angstrom", dict_getitem(self.cr, <<"F","e","_","l","o","w","s","p","i","n">>).data,
        "Larger (high-spin) chosen for generic atom">>,
      <<<<"C","o">>, "angstrom", dict_getitem(self.cr, <<"C","o","_","l","o","w","s","p","i","n">>).data,
        "Larger (high-spin) chosen for generic atom">>>>

\* the generic atoms: (ident, units, value, comment)
aliases(self) ==
    <<<<<<"C">>, "angstrom", dict_getitem(self.cr, <<"C","_","s","p","3">>).data,
        "Largest (sp3) chosen for generic atom">>,
      <<<<"M","n">>, "angstrom", dict_getitem(self.cr, <<"M","n","_","h","i","g","h","s","p","i","n">>).data,
        "Larger (high-spin) chosen for generic atom">>,
      <<<<"F","e">>, "angstrom", dict_getitem(self.cr, <<"F","e","_","h","i","g","h","s","p","i","n">>).data,
        "Larger (high-spin) chosen for generic atom">>,
      <<<<"C","o">>, "angstrom", dict_getitem(self.cr, <<"C","o","_","h","i","g","h","s","p","i","n">>).data,
        "Larger (high-spin) chosen for generic atom">>>>

RECURSIVE AddAliases_upper(_, _, _)
\* the aliases stored under ident.upper() instead of ident.capitalize()
AddAliases_upper(self, als, n) ==
    IF n = 0 THEN self
    ELSE LET before == AddAliases_upper(self, als, n - 1)
             alias  == als[n]
         IN  [before EXCEPT !.cr = dict_setitem(before.cr,
                 [i \in DOMAIN alias[1] |-> UpperChar(alias[1][i])],
                 Datum(alias[1], alias[2], alias[3], alias[4], ""))]

RECURSIVE AddAliases(_, _, _)
\* for alias in aliases: self.cr[ident.capitalize()] = Datum(ident, units, value, comment=comment)
AddAliases(self, als, n) ==
    IF n = 0 THEN self
    ELSE LET before == AddAliases(self, als, n - 1)
             alias  == als[n]
         IN  [before EXCEPT !.cr = dict_setitem(before.cr, capitalize(alias[1]),
                 Datum(alias[1], alias[2], alias[3], alias[4], ""))]

\* the context compared without regard to case
IsSupportedContext_anycase(context) == context \in {"ALVAREZ2008", "alvarez2008"}

\* the contexts whose data __init__ loads
IsSupportedContext(context) == context = "ALVAREZ2008"

\* KeyError("Context set as '<context>', only contexts {'ALVAREZ2008', } are currently supported")
ContextKeyError(context) ==
    [NoOutcome EXCEPT !.kind = "raise", !.exc = "KeyError", !.what = context,
                      !.names = {"ALVAREZ2008"}]

\* CovalentRadii.__init__(context): the object, or the exception that ends it
CovalentRadii__init__(context) ==
    IF IsSupportedContext(context)
    THEN LET src    == alvarez_2008_covalent_radii
             loaded == LoadEntries([NewObject EXCEPT !.doi = src.doi,
                                                     !.native_units = src.units],
                                   src.covalent_radii, Len(src.covalent_radii))
             named  == [loaded EXCEPT !.name = context,
                                      !.year = ParseInt(SubSeq(src.date, 1, 4))]
             als    == aliases(named)
         IN  [ok |-> TRUE, self |-> AddAliases(named, als, Len(als)), out |-> NoOutcome]
    ELSE [ok |-> FALSE, self |-> NewObject, out |-> ContextKeyError(context)]

\* CovalentRadii.__str__
CovalentRadii__str__(self) ==
    [self |-> self, out |-> ReturnText(<<"CovalentRadii(context='", self.name, "')">>)]

\* `if missing and return_tuple is False`: truthiness instead of `is not None`
MissingBranch_truthy(identifier, return_tuple, missing) ==
    IF ~missing.isNone /\ missing.v # 0 /\ return_tuple = FALSE
    THEN ReturnFloat(missing.v)
    ELSE DataUnavailableError("covalent radius", identifier)

\* the except KeyError branch of get
MissingBranch(identifier, return_tuple, missing) ==
    IF ~missing.isNone /\ return_tuple = FALSE
    THEN ReturnFloat(missing.v)
    ELSE DataUnavailableError("covalent radius", identifier)

\* every atom sent through the periodic table, table keys included
Identifier_always_to_E(self, atom) == to_E(atom)

\* the identifier get looks up: the atom itself when it is a key, else to_E(atom)
Identifier(self, atom) ==
    IF ~atom.isInt /\ dict_contains(self.cr, atom.s)
    THEN [ok |-> TRUE, E |-> atom.s, out |-> NoOutcome]
    ELSE to_E(atom)

\* get with to_E inside the try block and a bare except: an unresolvable atom
\* takes the missing branch
get_to_E_in_try(self, atom, return_tuple, units, missing) ==
    LET id == Identifier(self, atom)
    IN  [self |-> self,
         out  |-> IF ~id.ok \/ ~dict_contains(self.cr, id.E)
                  THEN MissingBranch(IF id.ok THEN id.E ELSE atom.s, return_tuple, missing)
                  ELSE LET qca == dict_getitem(self.cr, id.E)
                       IN  IF return_tuple THEN ReturnDatum(qca)
                           ELSE to_units(qca, units)]

\* get that ignores missing= when a Datum is asked for by returning it anyway
get_missing_any_mode(self, atom, return_tuple, units, missing) ==
    LET id == Identifier(self, atom)
    IN  [self |-> self,
         out  |-> IF ~id.ok THEN id.out
                  ELSE IF ~dict_contains(self.cr, id.E)
                       THEN MissingBranch(id.E, FALSE, missing)
                  ELSE LET qca == dict_getitem(self.cr, id.E)
                       IN  IF return_tuple THEN ReturnDatum(qca)
                           ELSE to_units(qca, units)]

\* get that remembers the fallback it handed out as an entry of the table
get_caching(self, atom, return_tuple, units, missing) ==
    LET id  == Identifier(self, atom)
        hit == id.ok /\ dict_contains(self.cr, id.E)
        out == IF ~id.ok THEN id.out
               ELSE IF ~hit THEN MissingBranch(id.E, return_tuple, missing)
               ELSE LET qca == dict_getitem(self.cr, id.E)
                    IN  IF return_tuple THEN ReturnDatum(qca) ELSE to_units(qca, units)
    IN  [self |-> IF id.ok /\ ~hit /\ out.kind = "float"
                  THEN [self EXCEPT !.cr = dict_setitem(self.cr, id.E,
                           Datum(id.E, units, [coef |-> missing.v, exp |-> -3], "", ""))]
                  ELSE self,
         out  |-> out]

\* CovalentRadii.get(atom, return_tuple=, units=, missing=)
get(self, atom, return_tuple, units, missing) ==
    LET id == Identifier(self, atom)
    IN  [self |-> self,
         out  |-> IF ~id.ok THEN id.out
                  ELSE IF ~dict_contains(self.cr, id.E)
                       THEN MissingBranch(id.E, return_tuple, missing)
                  ELSE LET qca == dict_getitem(self.cr, id.E)
                       IN  IF return_tuple THEN ReturnDatum(qca)
                           ELSE to_units(qca, units)]

\* datum.print_variables(self.cr): one line per entry, in the table's order
print_variables(qcvars) ==
    [i \in DOMAIN qcvars |->
        LET qca == qcvars[i][2]
        IN  <<qcvars[i][1], DecimalStr(qca.data), qca.units, qca.comment>>]

\* CovalentRadii.string_representation()
string_representation(self) ==
    [self |-> self, out |-> ReturnText(print_variables(self.cr))]

\* one line of the array initializer: "<value>,  /*- [<units>] <label> <comment> -*/"
HeaderEntry(self, el, missing) ==
    IF dict_contains(self.cr, el)
    THEN LET qca == dict_getitem(self.cr, el)
         IN  [value |-> DecimalStr(qca.data), units |-> qca.units,
              label |-> qca.label, comment |-> qca.comment]
    ELSE [value |-> format_2f(missing), units |-> self.native_units,
          label |-> el, comment |-> "Default value for missing data"]

\* write_c_header looping over the table's keys instead of periodictable.E
write_c_header_over_keys(self, filename, missing) ==
    [self |-> self,
     filename |-> filename,
     text |-> [head    |-> <<"#ifndef _qcelemental_covrad_h_",
                             "#define _qcelemental_covrad_h_",
                             "",
                             "/* This file is autogenerated from the QCElemental python module */",
                             "",
                             "const double covalent_radii[] = {">>,
               entries |-> [i \in DOMAIN self.cr |->
                               HeaderEntry(self, self.cr[i][1], missing)],
               tail    |-> <<"};", "#endif /* header guard */", "">>],
     out |-> NoOutcome]

\* CovalentRadii.write_c_header(filename, missing): the text written to the file
write_c_header(self, filename, missing) ==
    [self |-> self,
     filename |-> filename,
     text |-> [head    |-> <<"#ifndef _qcelemental_covrad_h_",
                             "#define _qcelemental_covrad_h_",
                             "",
                             "/* This file is autogenerated from the QCElemental python module */",
                             "",
                             "const double covalent_radii[] = {">>,
               entries |-> [i \in DOMAIN periodictable_E |->
                               HeaderEntry(self, periodictable_E[i], missing)],
               tail    |-> <<"};", "#endif /* header guard */", "">>],
     out |-> NoOutcome]

\* ----------------------------------------------------------- models.Molecule

\* the reshape in column-major (Fortran) order
reshape3_column_major(flat) ==
    [i \in 1..(Len(flat) \div 3) |->
        LET n == Len(flat) \div 3
        IN  <<flat[i], flat[n + i], flat[2 * n + i]>>]

\* np.array(geometry).reshape(-1, 3): rows of three, row-major
reshape3(flat) ==
    [i \in 1..(Len(flat) \div 3) |-> <<flat[3 * i - 2], flat[3 * i - 1], flat[3 * i]>>]

RECURSIVE flatten(_)
\* ndarray.flatten().tolist()
flatten(rows) ==
    IF rows = <<>> THEN <<>>
    ELSE flatten(SubSeq(rows, 1, Len(rows) - 1)) \o rows[Len(rows)]

\* Molecule(**record): the validated record, geometry held as an (nat, 3) array
Molecule(rec) ==
    [symbols      |-> rec.symbols,
     geometry     |-> reshape3(rec.geometry),
     connectivity |-> [i \in DOMAIN rec.connectivity |-> rec.connectivity[i]]]

\* repr(float) as the json encoder writes it, for a float given in thousandths
FloatRepr(x) ==
    LET a  == IF x < 0 THEN -x ELSE x
        fs == IntStr(a % 1000)
        pad == [i \in 1..(3 - Len(fs)) |-> "0"]
    IN  (IF x < 0 THEN <<"-">> ELSE <<>>) \o IntStr(a \div 1000) \o <<".">> \o pad \o fs

\* float(literal) as the json parser reads it, in thousandths
FloatParse(s) ==
    IF s[1] = "-" THEN -LiteralValue(SubSeq(s, 2, Len(s))) ELSE LiteralValue(s)

\* Molecule.json(): arrays are written flattened, numbers as literals
Molecule_json(mol) ==
    LET flat == flatten(mol.geometry)
    IN  [symbols      |-> mol.symbols,
         geometry     |-> [i \in DOMAIN flat |-> FloatRepr(flat[i])],
         connectivity |-> mol.connectivity]

\* Molecule.parse_raw(text): the parsed record handed to the constructor
Molecule_parse_raw(js) ==
    Molecule([symbols      |-> js.symbols,
              geometry     |-> [i \in DOMAIN js.geometry |-> FloatParse(js.geometry[i])],
              connectivity |-> js.connectivity])

\* ------------------------------------------------------------- the inputs

Contexts == {"ALVAREZ2008", "alvarez2008", "PYYKKO2009", ""}

StrAtoms ==
    {<<"C">>, <<"c">>, <<"C","_","s","p","3">>, <<"c","_","s","p","3">>, <<"F","E">>,
     <<"D">>, <<"h","E","4">>, <<"B","k">>, <<"b","k","2","4","7">>, <<"U","u","o">>}

IntAtoms == {0, 6, 97}

UnitNames == {"bohr", "angstrom"}

\* get's missing= : None, or a float in thousandths: 0.0, 0.667, 1.334, ...
MissingValues == {None} \cup {Float(k * 667) : k \in 0..MaxMissing}

\* write_c_header's missing= : the default 2.0, or a float with a third decimal
HeaderDefaults == {2000, MaxMissing * 667}

Filenames == {"covrad.h"}

ObjectNames == {"covalentradii", "obj"}

\* coordinates, in thousandths
Coordinates == {-1379, 22}

MoleculeSymbols == {<<"C">>, <<"H">>}

SeqsOfLen(S, n) == [1..n -> S]

\* the bonds a record of n atoms may list: (atom, atom, order), atoms from 0
Connectivities(n) ==
    IF n < 2 THEN {<<>>}
    ELSE {<<>>, <<<<0, 1, 1>>>>, <<<<0, n - 1, 1>>, <<0, 1, 2>>>>}

MoleculeRecords ==
    UNION {[symbols : SeqsOfLen(MoleculeSymbols, n),
            geometry : SeqsOfLen(Coordinates, 3 * n),
            connectivity : Connectivities(n)] : n \in 1..MaxAtoms}

\* ------------------------------------------------------------------ state

NoCall ==
    [op |-> "none", self |-> "", atom |-> NoAtom, return_tuple |-> FALSE,
     units |-> "", missing |-> None, filename |-> "", context |-> "",
     out |-> NoOutcome]

NoFile == [head |-> <<>>, entries |-> <<>>, tail |-> <<>>]

NoRecord == [symbols |-> <<>>, geometry |-> <<>>, connectivity |-> <<>>]

NoMolecule == [pc |-> "idle", raw |-> NoRecord, mol |-> NoRecord,
               json |-> NoRecord, parsed |-> NoRecord]

\* module load: `covalentradii = CovalentRadii("ALVAREZ2008")`
InitTables ==
    /\ heap = [o \in ObjectNames |->
                 IF o = "covalentradii" THEN <<CovalentRadii__init__("ALVAREZ2008").self>>
                 ELSE <<>>]
    /\ files = [f \in Filenames |-> NoFile]
    /\ last = NoCall

Init == InitTables /\ molecule = NoMolecule

Live == {o \in ObjectNames : heap[o] # <<>>}

\* obj = CovalentRadii(context)
Construct(context) ==
    \E r \in {CovalentRadii__init__(context)} :
        /\ heap' = IF r.ok THEN [heap EXCEPT !["obj"] = <<r.self>>] ELSE heap
        /\ last' = [NoCall EXCEPT !.op = "construct", !.self = "obj",
                                  !.context = context, !.out = r.out]
        /\ UNCHANGED <<files, molecule>>

\* heap[o].get(atom, return_tuple=, units=, missing=)
Get(o, atom, return_tuple, units, missing) ==
    \E r \in {get(heap[o][1], atom, return_tuple, units, missing)} :
        /\ heap' = [heap EXCEPT ![o] = <<r.self>>]
        /\ last' = [NoCall EXCEPT !.op = "get", !.self = o, !.atom = atom,
                                  !.return_tuple = return_tuple, !.units = units,
                                  !.missing = missing, !.out = r.out]
        /\ UNCHANGED <<files, molecule>>

\* heap[o].string_representation()
StringRepresentation(o) ==
    \E r \in {string_representation(heap[o][1])} :
        /\ heap' = [heap EXCEPT ![o] = <<r.self>>]
        /\ last' = [NoCall EXCEPT !.op = "string_representation", !.self = o, !.out = r.out]
        /\ UNCHANGED <<files, molecule>>

\* str(heap[o])
Str(o) ==
    \E r \in {CovalentRadii__str__(heap[o][1])} :
        /\ heap' = [heap EXCEPT ![o] = <<r.self>>]
        /\ last' = [NoCall EXCEPT !.op = "__str__", !.self = o, !.out = r.out]
        /\ UNCHANGED <<files, molecule>>

\* heap[o].write_c_header(filename, missing)
WriteCHeader(o, filename, missing) ==
    \E r \in {write_c_header(heap[o][1], filename, missing)} :
        /\ heap' = [heap EXCEPT ![o] = <<r.self>>]
        /\ files' = [files EXCEPT ![r.filename] = r.text]
        /\ last' = [NoCall EXCEPT !.op = "write_c_header", !.self = o,
                                  !.filename = filename, !.missing = Float(missing),
                                  !.out = r.out]
        /\ UNCHANGED molecule

Next ==
    \/ \E context \in Contexts : Construct(context)
    \/ \E o \in Live, s \in StrAtoms, rt \in BOOLEAN, u \in UnitNames, m \in MissingValues :
          Get(o, StrAtom(s), rt, u, m)
    \/ \E o \in Live, n \in IntAtoms, rt \in BOOLEAN, u \in UnitNames, m \in MissingValues :
          Get(o, IntAtom(n), rt, u, m)
    \/ \E o \in Live : StringRepresentation(o)
    \/ \E o \in Live : Str(o)
    \/ \E o \in Live, f \in Filenames, m \in HeaderDefaults : WriteCHeader(o, f, m)

Spec == Init /\ [][Next]_vars

\* ------------------------------------------- the Molecule test as a machine

InitMol ==
    /\ InitTables
    /\ \E rec \in MoleculeRecords : molecule = [NoMolecule EXCEPT !.pc = "raw", !.raw = rec]

\* molecule = Molecule(**mol)
MoleculeConstruct ==
    /\ molecule.pc = "raw"
    /\ molecule' = [molecule EXCEPT !.pc = "built", !.mol = Molecule(molecule.raw)]
    /\ UNCHANGED <<heap, files, last>>

\* molecule.json()
MoleculeJson ==
    /\ molecule.pc = "built"
    /\ molecule' = [molecule EXCEPT !.pc = "json", !.json = Molecule_json(molecule.mol)]
    /\ UNCHANGED <<heap, files, last>>

\* Molecule.parse_raw(...)
MoleculeParseRaw ==
    /\ molecule.pc = "json"
    /\ molecule' = [molecule EXCEPT !.pc = "parsed",
                                    !.parsed = Molecule_parse_raw(molecule.json)]
    /\ UNCHANGED <<heap, files, last>>

NextMol == MoleculeConstruct \/ MoleculeJson \/ MoleculeParseRaw

SpecMol == InitMol /\ [][NextMol]_vars

\* ------------------------------------------------------------ properties

\* the table as construction leaves it
Loaded == CovalentRadii__init__("ALVAREZ2008").self

\* the object the last call was made on
LastSelf == heap[last.self][1]

IsKey(self, atom) == ~atom.isInt /\ atom.s \in dict_keys(self.cr)

\* the atom is no key, the periodic table resolves it, and the symbol is no key
NotFound(self, atom) ==
    /\ ~IsKey(self, atom)
    /\ to_E(atom).ok
    /\ to_E(atom).E \notin dict_keys(self.cr)

\* the atom is no key and the periodic table cannot resolve it
Unresolvable(self, atom) == ~IsKey(self, atom) /\ ~to_E(atom).ok

\* a Decimal's value in thousandths
Thousandths(d) == d.coef * Pow10(3 + d.exp)

\* the keys "<E>_<suffix>" of the table
Specialized(self, E) ==
    {k \in dict_keys(self.cr) :
        /\ Len(k) > Len(E) + 1
        /\ SubSeq(k, 1, Len(E)) = E
        /\ k[Len(E) + 1] = "_"}

\* the elements with more than one specialized entry
MultiVariant(self) ==
    {E \in Range(periodictable_E) : Cardinality(Specialized(self, E)) > 1}

LargestVariant(self, E) ==
    CHOOSE m \in {Thousandths(dict_getitem(self.cr, k).data) : k \in Specialized(self, E)} :
        \A k \in Specialized(self, E) : Thousandths(dict_getitem(self.cr, k).data) <= m

\* C1: a scalar get of an identifier that is not in the table, in any form,
\* raises DataUnavailableError("covalent radius", identifier) when missing is
\* None and returns missing itself when it is not None (0 included), whatever
\* units is.
C1_MissingFallback ==
    (last.op = "get" /\ ~last.return_tuple /\ NotFound(LastSelf, last.atom)) =>
        IF last.missing.isNone
        THEN last.out = DataUnavailableError("covalent radius", to_E(last.atom).E)
        ELSE last.out = ReturnFloat(last.missing.v)

C1_Witness ==
    /\ last.op = "get" /\ ~last.return_tuple /\ NotFound(LastSelf, last.atom)
    /\ last.missing = Float(0)
    /\ last.units = "angstrom"
    /\ last.out = ReturnFloat(0)

\* C2: get with return_tuple=True returns the stored Datum, in the table's
\* native unit, whatever units is, and a failed lookup raises
\* DataUnavailableError whatever missing is.
C2_ReturnTuple ==
    (last.op = "get" /\ last.return_tuple) =>
        /\ (IsKey(LastSelf, last.atom) =>
               last.out = ReturnDatum(dict_getitem(LastSelf.cr, last.atom.s)))
        /\ (~IsKey(LastSelf, last.atom) /\ to_E(last.atom).ok /\ ~NotFound(LastSelf, last.atom) =>
               last.out = ReturnDatum(dict_getitem(LastSelf.cr, to_E(last.atom).E)))
        /\ (last.out.kind = "datum" => last.out.datum.units = LastSelf.native_units)
        /\ (NotFound(LastSelf, last.atom) =>
               last.out = DataUnavailableError("covalent radius", to_E(last.atom).E))
        /\ last.out.kind \in {"datum", "raise"}

C2_Witness ==
    /\ last.op = "get" /\ last.return_tuple
    /\ NotFound(LastSelf, last.atom)
    /\ ~last.missing.isNone
    /\ last.out.exc = "DataUnavailableError"

\* C3: every element with several specialized entries has exactly one
\* plain-symbol entry, whose value is the largest of the specialized values,
\* and get(E) returns that value converted to bohr.
C3_GenericIsLargest ==
    /\ \A o \in Live : \A E \in MultiVariant(heap[o][1]) :
          /\ Cardinality({i \in DOMAIN heap[o][1].cr : heap[o][1].cr[i][1] = E}) = 1
          /\ Thousandths(dict_getitem(heap[o][1].cr, E).data) = LargestVariant(heap[o][1], E)
    /\ (last.op = "get" /\ ~last.return_tuple /\ last.units = "bohr"
          /\ ~last.atom.isInt /\ last.atom.s \in MultiVariant(LastSelf)) =>
          last.out = ReturnFloat((LargestVariant(LastSelf, last.atom.s) * 188973) \div 100000)

C3_Witness ==
    /\ last.op = "get" /\ ~last.return_tuple /\ last.units = "bohr"
    /\ last.atom = StrAtom(<<"C">>)
    /\ last.atom.s \in MultiVariant(LastSelf)
    /\ last.out = ReturnFloat(1436)

\* C4: get of an identifier that is no key and that the periodic table cannot
\* resolve raises NotAnElementError, whatever missing and return_tuple are.
C4_NotAnElement ==
    (last.op = "get" /\ Unresolvable(LastSelf, last.atom)) =>
        last.out = NotAnElementError(last.atom)

C4_Witness ==
    /\ last.op = "get"
    /\ last.atom = StrAtom(<<"U","u","o">>)
    /\ ~last.missing.isNone /\ ~last.return_tuple
    /\ last.out.exc = "NotAnElementError"

\* C5: constructing with a context other than 'ALVAREZ2008' raises KeyError
\* naming the supported contexts, binds no object and leaves every object
\* there is, the singleton included, as it was.
C5_UnsupportedContext ==
    [][(last'.op = "construct" /\ last'.context # "ALVAREZ2008") =>
          /\ last'.out = [NoOutcome EXCEPT !.kind = "raise", !.exc = "KeyError",
                                           !.what = last'.context,
                                           !.names = {"ALVAREZ2008"}]
          /\ heap' = heap
          /\ files' = files]_vars

C5_Witness ==
    /\ last.op = "construct" /\ last.context = "PYYKKO2009"
    /\ last.out.exc = "KeyError"
    /\ heap["obj"] = <<>>
    /\ heap["covalentradii"] = <<Loaded>>

\* the file the last write_c_header wrote
LastFile == files[last.filename]

\* one entry per element, by atomic number, labelled with the element, and
\* the table's own value where the table has one
EntriesPerElement ==
    /\ \A i, j \in DOMAIN Elements : i < j => Elements[i].Z < Elements[j].Z
    /\ DOMAIN LastFile.entries = DOMAIN periodictable_E
    /\ \A i \in DOMAIN LastFile.entries :
          LET el == periodictable_E[i]
              e  == LastFile.entries[i]
          IN  /\ e.label = el
              /\ el \in dict_keys(LastSelf.cr) =>
                    Decimal(e.value) = dict_getitem(LastSelf.cr, el).data

C8_TableImmutable ==
    \A o \in Live : heap[o] = <<Loaded>>

C8_Witness ==
    /\ last.op = "get" /\ last.self = "obj"
    /\ NotFound(LastSelf, last.atom)
    /\ last.out = ReturnFloat(667)
    /\ files["covrad.h"] # NoFile
    /\ heap["obj"] = <<Loaded>>

\* C9: an atom that is a key is looked up as it is, without the periodic
\* table; any other atom that normalizes to E has the outcome of get(E) with
\* the same keyword arguments.
C9_NormalizedLookup ==
    last.op = "get" =>
        /\ IsKey(LastSelf, last.atom) =>
              last.out = IF last.return_tuple
                         THEN ReturnDatum(dict_getitem(LastSelf.cr, last.atom.s))
                         ELSE to_units(dict_getitem(LastSelf.cr, last.atom.s), last.units)
        /\ (~IsKey(LastSelf, last.atom) /\ to_E(last.atom).ok) =>
              last.out = get(LastSelf, StrAtom(to_E(last.atom).E), last.return_tuple,
                             last.units, last.missing).out

C9_Witness ==
    /\ last.op = "get"
    /\ last.atom = StrAtom(<<"F","E">>)
    /\ ~IsKey(LastSelf, last.atom)
    /\ to_E(last.atom).E = <<"F","e">>
    /\ last.units = "angstrom" /\ ~last.return_tuple
    /\ last.out = ReturnFloat(1520)

\* C10: every entry of a constructed table maps its key to a Datum whose
\* label is the key, the generic aliases C, Mn, Fe and Co included.
C10_LabelIsKey ==
    \A o \in Live : \A i \in DOMAIN heap[o][1].cr :
        heap[o][1].cr[i][2].label = heap[o][1].cr[i][1]

C10_Witness ==
    /\ last.op = "construct" /\ last.out = NoOutcome
    /\ heap["obj"] # <<>>
    /\ \A k \in {<<"C">>, <<"M","n">>, <<"F","e">>, <<"C","o">>} :
          /\ k \in dict_keys(heap["obj"][1].cr)
          /\ dict_getitem(heap["obj"][1].cr, k).label = k

====
